---- MODULE Spec2Model ----
(***************************************************************************)
(* The pipeline of main_pipeline/: the state record (GraphState), the      *)
(* stage functions of agents.py and graph.py, the routers of graph.py, the *)
(* graph registered by build_graph, and the engine that run_demo invokes.  *)
(* critique_agent_node is the one of main_pipeline.py (the package imports *)
(* it but does not define it).                                             *)
(*                                                                         *)
(* The reasoning service, the retrieval service and the test tool are      *)
(* collaborators: every stage takes the collaborator's answer as an input  *)
(* drawn from the set of shapes the stage's code distinguishes.            *)
(***************************************************************************)
EXTENDS Integers, Sequences, FiniteSets, TLC

\* ---------------------------------------------------------------- bounds
\* Largest max_planner_iterations / max_refinements a run is started with.
MaxPlannerCap == 2
MaxRefinementCap == 5

\* The engine's step ceiling for app.invoke(initial_state) (no config given).
RecursionLimit == 25

\* ---------------------------------------------------------------- values
NULL == "None"
END == "__end__"
START == "__start__"

\* Python truthiness of an Optional[str].
Truthy(v) == v # NULL /\ v # ""

\* architect outputs kept in architectural_decision
ArchDecision == "{chosen_language: python}"
ArchDecisionEmptyLanguage == "{chosen_language: ''}"

\* planner outputs
Questions == "[What should the function return?]"
PlanText == "Write greet_user(name) returning a greeting."
ErrPlanText == "Write greet_user(name). Error: an empty name raises ValueError."

\* texts written to current_error
ArchitectErrorText == "Architect Error: Invalid output format or missing key fields from LLM."
PlannerErrorMissingDecision == "Planner Error: Missing or invalid architectural decision from Architect."
PlannerErrorNoPlan == "Planner Error: No plan provided and no clarification questions asked by LLM."
PlannerErrorInvalid == "Planner Error: Invalid output format from LLM or parsing error."
DeveloperNoCodeText == "Developer agent failed to produce a parsable code block."
TcdNoTaskText == "Cannot design test cases without a task description."
TcdInvalidText == "Test Case Designer LLM did not return valid test cases or list was empty."
TcdMalformedText == "Test Case Designer LLM output error or malformed JSON"
TcdExceptionText == "Test Case Designer Exception"
ValidationNoCodeText == "Validation: No code."
CritiqueNoCodeText == "Critique: No code."
\* the text main_pipeline.py's packaging stage writes; the packaging stage of
\* graph.py writes none, its router looks for it
PackagingErrorText == "Packaging Error: cannot write the artifact."

\* The substrings the routers and the developer look for, and the texts of
\* the model that contain each of them (Python's `sub in text`).
TextsContaining(sub) ==
  CASE sub = "Architect Error" -> {ArchitectErrorText}
    [] sub = "Planner Error" ->
         {PlannerErrorMissingDecision, PlannerErrorNoPlan, PlannerErrorInvalid}
    [] sub = "Test Case Designer" ->
         {TcdInvalidText, TcdMalformedText, TcdExceptionText}
    [] sub = "Developer agent" -> {DeveloperNoCodeText}
    [] sub = "No parsable code" -> {}
    [] sub = "Packaging Error" -> {PackagingErrorText}
    [] sub = "Error:" ->
         {ArchitectErrorText, PlannerErrorMissingDecision, PlannerErrorNoPlan,
          PlannerErrorInvalid, ErrPlanText, PackagingErrorText}
    [] OTHER -> {}

\* state.get("current_error") and sub in state.get("current_error", "")
Contains(text, sub) == Truthy(text) /\ text \in TextsContaining(sub)

\* generated code and test cases
CodeText == "def greet_user(name): ..."
DemoTestCases == <<"greet_user('Alice') == 'Hello, Alice!'">>
DesignedTestCases == <<"mock_func(1) == 2">>

\* current_test_status values
FunctionalFailures == {"compilation_error", "runtime_error", "test_fail"}
TestStatuses == {"success", "tool_error"} \cup FunctionalFailures

\* critique texts
GeneralGuidance == "The previous step resulted in an error or an issue that needs developer attention."
CritiqueText == "Mock critique: Re-check the core logic."
CritiqueNoCodeCritique == "Error: No code provided to critique."

\* packaging / handoff outputs
PackagedInfo == "{code_file: output.py, documentation: README.md}"
HandoffText == "Artifacts successfully handed off to the next stage."

\* ---------------------------------------------------------------- state record
InitialState(maxp, maxr) ==
  [ architectural_decision |-> NULL,
    clarified_user_input |-> NULL,
    clarification_questions_for_user |-> NULL,
    planner_iteration_count |-> 0,
    max_planner_iterations |-> maxp,
    task_description |-> "",
    planned_task_description |-> NULL,
    generated_test_cases |-> DemoTestCases,
    current_test_case_index |-> 0,
    generated_code |-> NULL,
    current_test_status |-> NULL,
    current_test_message |-> NULL,
    critique |-> NULL,
    validation_status |-> NULL,
    validation_issues |-> <<>>,
    packaged_artifacts_info |-> NULL,
    handoff_summary |-> NULL,
    feedback_history |-> <<>>,
    refinement_count |-> 0,
    max_refinements |-> maxr,
    current_error |-> NULL ]

\* ---------------------------------------------------------------- collaborator answers
\* What the architect chain returns: a decision, a decision whose
\* chosen_language is empty, or something that is no decision at all.
ArchitectOutputs == {ArchDecision, ArchDecisionEmptyLanguage, "invalid"}

\* What the planner chain returns: a dict with optional questions and an
\* optional plan (absent, empty or a text), or something invalid.
PlannerOutputs ==
  [ valid : {TRUE},
    clarification_questions : {NULL, Questions},
    planned_task_description : {NULL, "", PlanText, ErrPlanText} ]
  \cup { [ valid |-> FALSE, clarification_questions |-> NULL,
           planned_task_description |-> NULL ] }

\* What the test-case designer chain returns.
DesignerOutputs == {"valid_cases", "invalid_or_empty_cases", "malformed", "exception"}

\* extract_python_code(llm_response): a code block or None.
DeveloperOutputs == {CodeText, NULL}

\* The status QA ends with: the tool's, or tool_error when the agent failed.
QaOutputs == TestStatuses

\* What the validation chain returns.
ValidationOutputs ==
  [ valid : {TRUE}, validation_passed : BOOLEAN,
    issues_found : {<<>>, <<"Missing docstring.">>} ]
  \cup { [ valid |-> FALSE, validation_passed |-> FALSE, issues_found |-> <<>> ] }

\* What the critique chain returns.
CritiqueOutputs == {CritiqueText}

\* ---------------------------------------------------------------- stages
ArchitectAgentNode(s, out) ==
  IF out \in {ArchDecision, ArchDecisionEmptyLanguage}
  THEN [s EXCEPT !.architectural_decision = out,
                 !.current_error = NULL,
                 !.planned_task_description = NULL,
                 !.task_description = "",
                 !.clarified_user_input = NULL,
                 !.clarification_questions_for_user = NULL,
                 !.planner_iteration_count = 0,
                 !.generated_code = NULL,
                 !.current_test_status = NULL,
                 !.critique = NULL,
                 !.validation_status = NULL,
                 !.packaged_artifacts_info = NULL,
                 !.handoff_summary = NULL,
                 !.feedback_history = <<>>,
                 !.refinement_count = 0]
  ELSE [s EXCEPT !.architectural_decision = NULL,
                 !.current_error = ArchitectErrorText]

\* planner_agent_node that, after the first iteration, takes the refinement
\* counter from the planner's own counter.
PlannerAgentNode_CounterMixup(s, out) ==
  IF s.architectural_decision = NULL
  THEN [s EXCEPT !.current_error = PlannerErrorMissingDecision,
                 !.clarification_questions_for_user = NULL]
  ELSE
    LET questions_for_user ==
          IF out.valid THEN out.clarification_questions ELSE NULL
        planned_task_desc ==
          IF out.valid /\ ~Truthy(questions_for_user)
          THEN out.planned_task_description ELSE NULL
    IN [s EXCEPT
          !.planned_task_description = planned_task_desc,
          !.task_description =
             IF Truthy(planned_task_desc) THEN planned_task_desc
             ELSE s.task_description,
          !.clarification_questions_for_user = questions_for_user,
          !.clarified_user_input = NULL,
          !.planner_iteration_count = s.planner_iteration_count + 1,
          !.current_error =
             IF ~out.valid THEN PlannerErrorInvalid
             ELSE IF ~Truthy(questions_for_user) /\ ~Truthy(planned_task_desc)
                  THEN PlannerErrorNoPlan ELSE NULL,
          !.critique = NULL,
          !.validation_status = NULL,
          !.validation_issues = <<>>,
          !.packaged_artifacts_info = NULL,
          !.handoff_summary = NULL,
          !.generated_code = NULL,
          !.current_test_status = NULL,
          !.current_test_message = NULL,
          !.feedback_history =
             IF s.planner_iteration_count + 1 = 1 THEN <<>> ELSE s.feedback_history,
          !.refinement_count =
             IF s.planner_iteration_count + 1 = 1 THEN 0
             ELSE s.planner_iteration_count]

\* planner_agent_node that stores the plan of an answer that also asks
\* questions.
PlannerAgentNode_KeepsPlanWithQuestions(s, out) ==
  IF s.architectural_decision = NULL
  THEN [s EXCEPT !.current_error = PlannerErrorMissingDecision,
                 !.clarification_questions_for_user = NULL]
  ELSE
    LET questions_for_user ==
          IF out.valid THEN out.clarification_questions ELSE NULL
        planned_task_desc ==
          IF out.valid THEN out.planned_task_description ELSE NULL
    IN [s EXCEPT
          !.planned_task_description = planned_task_desc,
          !.task_description =
             IF Truthy(planned_task_desc) THEN planned_task_desc
             ELSE s.task_description,
          !.clarification_questions_for_user =
             IF Truthy(questions_for_user) THEN questions_for_user ELSE NULL,
          !.clarified_user_input = NULL,
          !.planner_iteration_count = s.planner_iteration_count + 1,
          !.current_error =
             IF ~out.valid THEN PlannerErrorInvalid
             ELSE IF ~Truthy(questions_for_user) /\ ~Truthy(planned_task_desc)
                  THEN PlannerErrorNoPlan ELSE NULL,
          !.critique = NULL,
          !.validation_status = NULL,
          !.validation_issues = <<>>,
          !.packaged_artifacts_info = NULL,
          !.handoff_summary = NULL,
          !.generated_code = NULL,
          !.current_test_status = NULL,
          !.current_test_message = NULL,
          !.feedback_history =
             IF s.planner_iteration_count + 1 = 1 THEN <<>> ELSE s.feedback_history,
          !.refinement_count =
             IF s.planner_iteration_count + 1 = 1 THEN 0 ELSE s.refinement_count]

PlannerAgentNode(s, out) ==
  IF s.architectural_decision = NULL
  THEN [s EXCEPT !.current_error = PlannerErrorMissingDecision,
                 !.clarification_questions_for_user = NULL]
  ELSE
    LET new_planner_iteration_count == s.planner_iteration_count + 1
        questions_for_user ==
          IF out.valid THEN out.clarification_questions ELSE NULL
        planned_task_desc ==
          IF out.valid /\ ~Truthy(questions_for_user)
          THEN out.planned_task_description ELSE NULL
        current_error_for_state ==
          IF ~out.valid THEN PlannerErrorInvalid
          ELSE IF ~Truthy(questions_for_user) /\ ~Truthy(planned_task_desc)
               THEN PlannerErrorNoPlan
               ELSE NULL
    IN [s EXCEPT
          !.planned_task_description = planned_task_desc,
          !.task_description =
             IF Truthy(planned_task_desc) THEN planned_task_desc
             ELSE s.task_description,
          !.clarification_questions_for_user =
             IF Truthy(questions_for_user) THEN questions_for_user ELSE NULL,
          !.clarified_user_input = NULL,
          !.planner_iteration_count = new_planner_iteration_count,
          !.current_error = current_error_for_state,
          !.critique = NULL,
          !.validation_status = NULL,
          !.validation_issues = <<>>,
          !.packaged_artifacts_info = NULL,
          !.handoff_summary = NULL,
          !.generated_code = NULL,
          !.current_test_status = NULL,
          !.current_test_message = NULL,
          !.feedback_history =
             IF new_planner_iteration_count = 1 THEN <<>>
             ELSE s.feedback_history,
          !.refinement_count =
             IF new_planner_iteration_count = 1 THEN 0
             ELSE s.refinement_count]

\* build_graph registers `lambda state: state`.
HumanInteractionNode(s) == s

\* test_case_designer_node that empties the test cases on an invalid answer
\* without recording the error.
TestCaseDesignerNode_SilentInvalid(s, out) ==
  IF ~Truthy(s.planned_task_description)
  THEN [s EXCEPT !.current_error = TcdNoTaskText, !.generated_test_cases = <<>>]
  ELSE IF out = "valid_cases"
  THEN [s EXCEPT !.generated_test_cases = DesignedTestCases,
                 !.current_test_case_index = 0,
                 !.current_error = NULL]
  ELSE [s EXCEPT !.generated_test_cases = <<>>]

\* test_case_designer_node that leaves current_test_case_index at the length
\* of the new list instead of 0.
TestCaseDesignerNode_IndexPastEnd(s, out) ==
  IF ~Truthy(s.planned_task_description)
  THEN [s EXCEPT !.current_error = TcdNoTaskText, !.generated_test_cases = <<>>]
  ELSE IF out = "valid_cases"
  THEN [s EXCEPT !.generated_test_cases = DesignedTestCases,
                 !.current_test_case_index = Len(DesignedTestCases),
                 !.current_error = NULL]
  ELSE [s EXCEPT !.current_error =
                    CASE out = "invalid_or_empty_cases" -> TcdInvalidText
                      [] out = "malformed" -> TcdMalformedText
                      [] OTHER -> TcdExceptionText,
                 !.generated_test_cases = <<>>]

TestCaseDesignerNode(s, out) ==
  IF ~Truthy(s.planned_task_description)
  THEN [s EXCEPT !.current_error = TcdNoTaskText, !.generated_test_cases = <<>>]
  ELSE CASE out = "valid_cases" ->
              [s EXCEPT !.generated_test_cases = DesignedTestCases,
                        !.current_test_case_index = 0,
                        !.current_error = NULL]
         [] out = "invalid_or_empty_cases" ->
              [s EXCEPT !.current_error = TcdInvalidText,
                        !.generated_test_cases = <<>>]
         [] out = "malformed" ->
              [s EXCEPT !.current_error = TcdMalformedText,
                        !.generated_test_cases = <<>>]
         [] OTHER ->
              [s EXCEPT !.current_error = TcdExceptionText,
                        !.generated_test_cases = <<>>]

\* Entries of feedback_history: the kind of the entry and the developer
\* attempt it is about.
FeedbackEntry(kind, attempt) == [kind |-> kind, attempt |-> attempt]

\* developer_agent_node that starts the attempt counter again when it
\* produces code.
DeveloperAgentNode_ResetOnCode(s, out) ==
  IF ~Truthy(s.task_description) \/ s.task_description \in TextsContaining("Error:")
  THEN [s EXCEPT !.generated_code = NULL,
                 !.current_test_status = "tool_error",
                 !.current_error = s.task_description,
                 !.refinement_count = s.refinement_count + 1]
  ELSE IF ~Truthy(out)
  THEN [s EXCEPT !.generated_code = NULL,
                 !.current_test_status = "tool_error",
                 !.current_test_message = DeveloperNoCodeText,
                 !.current_error = DeveloperNoCodeText,
                 !.refinement_count = s.refinement_count + 1,
                 !.feedback_history =
                    Append(s.feedback_history,
                           FeedbackEntry("DevAttempt failed", s.refinement_count + 1))]
  ELSE [s EXCEPT !.generated_code = out,
                 !.refinement_count = 1,
                 !.current_error = NULL,
                 !.critique = NULL,
                 !.validation_status = NULL,
                 !.validation_issues = <<>>,
                 !.packaged_artifacts_info = NULL,
                 !.handoff_summary = NULL]

\* developer_agent_node that counts only the attempts that produced code.
DeveloperAgentNode_FailureNotCounted(s, out) ==
  IF ~Truthy(s.task_description) \/ s.task_description \in TextsContaining("Error:")
  THEN [s EXCEPT !.generated_code = NULL,
                 !.current_test_status = "tool_error",
                 !.current_error = s.task_description]
  ELSE IF ~Truthy(out)
  THEN [s EXCEPT !.generated_code = NULL,
                 !.current_test_status = "tool_error",
                 !.current_test_message = DeveloperNoCodeText,
                 !.current_error = DeveloperNoCodeText,
                 !.feedback_history =
                    Append(s.feedback_history,
                           FeedbackEntry("DevAttempt failed", s.refinement_count + 1))]
  ELSE [s EXCEPT !.generated_code = out,
                 !.refinement_count = s.refinement_count + 1,
                 !.current_error = NULL,
                 !.critique = NULL,
                 !.validation_status = NULL,
                 !.validation_issues = <<>>,
                 !.packaged_artifacts_info = NULL,
                 !.handoff_summary = NULL]

DeveloperAgentNode(s, out) ==
  IF ~Truthy(s.task_description) \/ s.task_description \in TextsContaining("Error:")
  THEN [s EXCEPT !.generated_code = NULL,
                 !.current_test_status = "tool_error",
                 !.current_error = s.task_description,
                 !.refinement_count = s.refinement_count + 1]
  ELSE
    LET current_attempt_count == s.refinement_count + 1 IN
    IF ~Truthy(out)
    THEN [s EXCEPT !.generated_code = NULL,
                   !.current_test_status = "tool_error",
                   !.current_test_message = DeveloperNoCodeText,
                   !.current_error = DeveloperNoCodeText,
                   !.refinement_count = current_attempt_count,
                   !.feedback_history =
                      Append(s.feedback_history,
                             FeedbackEntry("DevAttempt failed", current_attempt_count))]
    ELSE [s EXCEPT !.generated_code = out,
                   !.refinement_count = current_attempt_count,
                   !.current_error = NULL,
                   !.critique = NULL,
                   !.validation_status = NULL,
                   !.validation_issues = <<>>,
                   !.packaged_artifacts_info = NULL,
                   !.handoff_summary = NULL]

\* state["generated_test_cases"][state["current_test_case_index"]], the first
\* thing qa_agent_node evaluates: a Python list lookup raises IndexError
\* unless -len <= index < len.
TestCaseLookupFails(s) ==
  ~( /\ s.current_test_case_index >= 0 - Len(s.generated_test_cases)
     /\ s.current_test_case_index < Len(s.generated_test_cases) )

QaMessage(status) ==
  IF status = "success" THEN "Test passed."
  ELSE IF status = "tool_error"
       THEN "QA agent did not successfully complete testing or parse results."
       ELSE "Tool message."

\* qa_agent_node that clears current_error when it has no code to test, as it
\* does when it has.
QaAgentNode_ClearsError(s, out) ==
  IF ~Truthy(s.generated_code)
  THEN [s EXCEPT !.current_test_status = "tool_error",
                 !.current_test_message = "No code from dev for QA.",
                 !.current_error = NULL]
  ELSE [s EXCEPT !.current_test_status = out,
                 !.current_test_message = QaMessage(out),
                 !.current_error = NULL,
                 !.validation_status = NULL,
                 !.validation_issues = <<>>,
                 !.packaged_artifacts_info = NULL,
                 !.handoff_summary = NULL]

QaAgentNode(s, out) ==
  IF ~Truthy(s.generated_code)
  THEN [s EXCEPT !.current_test_status = "tool_error",
                 !.current_test_message = "No code from dev for QA."]
  ELSE [s EXCEPT !.current_test_status = out,
                 !.current_test_message = QaMessage(out),
                 !.current_error = NULL,
                 !.validation_status = NULL,
                 !.validation_issues = <<>>,
                 !.packaged_artifacts_info = NULL,
                 !.handoff_summary = NULL]

\* validation_agent_node reporting missing code as a failed validation.
ValidationAgentNode_NoCodeFails(s, out) ==
  IF ~Truthy(s.generated_code)
  THEN [s EXCEPT !.validation_status = "fail",
                 !.validation_issues = <<"No code provided for validation.">>,
                 !.current_error = ValidationNoCodeText]
  ELSE IF out.valid
  THEN [s EXCEPT !.validation_status =
                    IF out.validation_passed /\ out.issues_found = <<>>
                    THEN "pass" ELSE "fail",
                 !.validation_issues =
                    IF out.issues_found = <<>> /\ ~out.validation_passed
                    THEN <<"Validation failed but no specific issues were reported by the validation agent.">>
                    ELSE out.issues_found,
                 !.current_error = NULL]
  ELSE [s EXCEPT !.validation_status = "error",
                 !.validation_issues = <<"Validation agent did not return expected JSON format or encountered parsing error.">>,
                 !.current_error = NULL]

\* validation_agent_node that takes the reviewer's verdict as the status even
\* when the reviewer lists issues.
ValidationAgentNode_TrustsPass(s, out) ==
  IF ~Truthy(s.generated_code)
  THEN [s EXCEPT !.validation_status = "error",
                 !.validation_issues = <<"No code provided for validation.">>,
                 !.current_error = ValidationNoCodeText]
  ELSE IF out.valid
  THEN [s EXCEPT !.validation_status =
                    IF out.validation_passed THEN "pass" ELSE "fail",
                 !.validation_issues =
                    IF out.issues_found = <<>> /\ ~out.validation_passed
                    THEN <<"Validation failed but no specific issues were reported by the validation agent.">>
                    ELSE out.issues_found,
                 !.current_error = NULL]
  ELSE [s EXCEPT !.validation_status = "error",
                 !.validation_issues = <<"Validation agent did not return expected JSON format or encountered parsing error.">>,
                 !.current_error = NULL]

ValidationAgentNode(s, out) ==
  IF ~Truthy(s.generated_code)
  THEN [s EXCEPT !.validation_status = "error",
                 !.validation_issues = <<"No code provided for validation.">>,
                 !.current_error = ValidationNoCodeText]
  ELSE IF out.valid
  THEN LET val_passed == out.validation_passed
           reported == out.issues_found
           val_status == IF val_passed /\ reported = <<>> THEN "pass" ELSE "fail"
           issues_found ==
             IF val_passed /\ reported # <<>>
             THEN Append(reported, "Internal Consistency: LLM reported pass but listed issues.")
             ELSE IF ~val_passed /\ reported = <<>>
                  THEN <<"Validation failed but no specific issues were reported by the validation agent.">>
                  ELSE reported
       IN [s EXCEPT !.validation_status = val_status,
                    !.validation_issues = issues_found,
                    !.current_error = NULL]
  ELSE [s EXCEPT !.validation_status = "error",
                 !.validation_issues =
                    <<"Validation agent did not return expected JSON format or encountered parsing error.">>,
                 !.current_error = NULL]

\* critique_agent_node that counts its own execution as a refinement.
CritiqueAgentNode_CountsAttempt(s, out) ==
  IF ~Truthy(s.generated_code)
  THEN [s EXCEPT !.critique = CritiqueNoCodeCritique,
                 !.current_error = CritiqueNoCodeText]
  ELSE [s EXCEPT !.critique = IF s.validation_issues = <<>> THEN GeneralGuidance ELSE out,
                 !.current_error = NULL,
                 !.refinement_count = s.refinement_count + 1,
                 !.feedback_history =
                    Append(IF s.validation_issues # <<>>
                           THEN Append(s.feedback_history,
                                       FeedbackEntry("Raw Validation Issues", s.refinement_count))
                           ELSE s.feedback_history,
                           FeedbackEntry("Critique", s.refinement_count))]

\* critique_agent_node that starts feedback_history again from its own
\* entries instead of copying the previous log.
CritiqueAgentNode_Overwrites(s, out) ==
  IF ~Truthy(s.generated_code)
  THEN [s EXCEPT !.critique = CritiqueNoCodeCritique,
                 !.current_error = CritiqueNoCodeText]
  ELSE [s EXCEPT !.critique = IF s.validation_issues = <<>> THEN GeneralGuidance ELSE out,
                 !.current_error = NULL,
                 !.feedback_history =
                    IF s.validation_issues # <<>>
                    THEN << FeedbackEntry("Raw Validation Issues", s.refinement_count),
                            FeedbackEntry("Critique", s.refinement_count) >>
                    ELSE << FeedbackEntry("Critique", s.refinement_count) >>]

\* critique_agent_node reads state.get("test_message", "") and
\* state.get("test_status"): keys the record of this package does not carry
\* (it carries current_test_message and current_test_status), so
\* test_failure_msg is "" and the only reason it can find is a validation issue.
CritiqueAgentNode(s, out) ==
  LET test_failure_msg == ""
      val_issues == s.validation_issues
      reason_for_critique == IF val_issues # <<>> THEN "Validation issues found" ELSE ""
  IN IF ~Truthy(s.generated_code)
     THEN [s EXCEPT !.critique = CritiqueNoCodeCritique,
                    !.current_error = CritiqueNoCodeText]
     ELSE
       LET critique_output == IF reason_for_critique = "" THEN GeneralGuidance ELSE out
           h0 == s.feedback_history
           h1 == IF Truthy(test_failure_msg)
                 THEN Append(h0, FeedbackEntry("Raw Test Failure", s.refinement_count))
                 ELSE h0
           h2 == IF val_issues # <<>>
                 THEN Append(h1, FeedbackEntry("Raw Validation Issues", s.refinement_count))
                 ELSE h1
           updated_feedback_history ==
                 Append(h2, FeedbackEntry("Critique", s.refinement_count))
       IN [s EXCEPT !.critique = critique_output,
                    !.current_error = NULL,
                    !.feedback_history = updated_feedback_history]

ArtifactPackagingNode(s) ==
  [s EXCEPT !.packaged_artifacts_info = PackagedInfo, !.current_error = NULL]

HandoffNode(s) ==
  [s EXCEPT !.handoff_summary = HandoffText, !.current_error = NULL]

\* ---------------------------------------------------------------- routers
\* decide_after_architect that takes any decision, with or without a language.
decide_after_architect_IgnoresLanguage(s) ==
  IF Contains(s.current_error, "Architect Error") THEN END
  ELSE IF Truthy(s.architectural_decision) THEN "planner_agent_node"
  ELSE END

decide_after_architect(s) ==
  IF Contains(s.current_error, "Architect Error") THEN END
  ELSE IF s.architectural_decision = ArchDecision THEN "planner_agent_node"
  ELSE END

\* decide_after_planner comparing the counter with <= instead of <.
decide_after_planner_OffByOne(s) ==
  IF Contains(s.current_error, "Planner Error") THEN END
  ELSE IF Truthy(s.clarification_questions_for_user)
          /\ s.planner_iteration_count <= s.max_planner_iterations
  THEN "human_interaction_node"
  ELSE IF Truthy(s.clarification_questions_for_user) THEN END
  ELSE IF Truthy(s.planned_task_description) THEN "test_case_designer_node"
  ELSE END

\* decide_after_planner returning the stage name main_pipeline.py uses, which
\* this graph's table for the planner does not register.
decide_after_planner_unregistered(s) ==
  IF Contains(s.current_error, "Planner Error") THEN END
  ELSE IF Truthy(s.clarification_questions_for_user)
          /\ s.planner_iteration_count < s.max_planner_iterations
  THEN "human_interaction_node"
  ELSE IF Truthy(s.clarification_questions_for_user) THEN END
  ELSE IF Truthy(s.planned_task_description) THEN "developer_agent_node"
  ELSE END

decide_after_planner(s) ==
  IF Contains(s.current_error, "Planner Error") THEN END
  ELSE LET questions == s.clarification_questions_for_user
           planner_iters == s.planner_iteration_count
           max_planner_iters == s.max_planner_iterations
       IN IF Truthy(questions) /\ planner_iters < max_planner_iters
          THEN "human_interaction_node"
          ELSE IF Truthy(questions) /\ planner_iters >= max_planner_iters
          THEN END
          ELSE IF Truthy(s.planned_task_description)
          THEN "test_case_designer_node"
          ELSE END

\* decide_after_test_case_designer that looks at the error only, not at the
\* test cases.
decide_after_test_case_designer_IgnoresCases(s) ==
  IF Contains(s.current_error, "Test Case Designer") THEN END
  ELSE IF Truthy(s.current_error) THEN END
  ELSE "developer_agent_node"

decide_after_test_case_designer(s) ==
  IF Contains(s.current_error, "Test Case Designer") THEN END
  ELSE IF Len(s.generated_test_cases) > 0 THEN "developer_agent_node"
  ELSE END

\* decide_after_qa comparing the counter with <= instead of <.
decide_after_qa_OffByOne(s) ==
  IF Contains(s.current_error, "Architect Error")
     \/ Contains(s.current_error, "Planner Error")
  THEN END
  ELSE IF s.current_test_status = "success" THEN "validation_agent_node"
  ELSE IF s.current_test_status = "tool_error"
          /\ (Contains(s.current_error, "Developer agent")
              \/ Contains(s.current_error, "No parsable code"))
  THEN (IF s.refinement_count <= s.max_refinements THEN "developer_agent_node" ELSE END)
  ELSE (IF s.refinement_count <= s.max_refinements THEN "critique_agent_node" ELSE END)

\* decide_after_qa ending the run when current_test_status is unset.
decide_after_qa_UnsetIsTerminal(s) ==
  IF Contains(s.current_error, "Architect Error")
     \/ Contains(s.current_error, "Planner Error")
  THEN END
  ELSE IF s.current_test_status = NULL THEN END
  ELSE IF s.current_test_status = "success" THEN "validation_agent_node"
  ELSE IF s.current_test_status = "tool_error"
          /\ (Contains(s.current_error, "Developer agent")
              \/ Contains(s.current_error, "No parsable code"))
  THEN (IF s.refinement_count < s.max_refinements THEN "developer_agent_node" ELSE END)
  ELSE (IF s.refinement_count < s.max_refinements THEN "critique_agent_node" ELSE END)

\* decide_after_qa sending a developer's tool error back to the developer
\* without looking at the refinement cap.
decide_after_qa_UncappedRetry(s) ==
  IF Contains(s.current_error, "Architect Error")
     \/ Contains(s.current_error, "Planner Error")
  THEN END
  ELSE IF s.current_test_status = "success" THEN "validation_agent_node"
  ELSE IF s.current_test_status = "tool_error"
          /\ (Contains(s.current_error, "Developer agent")
              \/ Contains(s.current_error, "No parsable code"))
  THEN "developer_agent_node"
  ELSE (IF s.refinement_count < s.max_refinements THEN "critique_agent_node" ELSE END)

\* decide_after_qa that looks at the refinement cap before the test status.
decide_after_qa_CapFirst(s) ==
  IF Contains(s.current_error, "Architect Error")
     \/ Contains(s.current_error, "Planner Error")
  THEN END
  ELSE IF s.refinement_count >= s.max_refinements THEN END
  ELSE IF s.current_test_status = "success" THEN "validation_agent_node"
  ELSE IF s.current_test_status = "tool_error"
          /\ (Contains(s.current_error, "Developer agent")
              \/ Contains(s.current_error, "No parsable code"))
  THEN "developer_agent_node"
  ELSE "critique_agent_node"

decide_after_qa(s) ==
  LET test_status == s.current_test_status
      ref_count == s.refinement_count
      max_ref == s.max_refinements
  IN IF Contains(s.current_error, "Architect Error")
        \/ Contains(s.current_error, "Planner Error")
     THEN END
     ELSE IF test_status = "success" THEN "validation_agent_node"
     ELSE IF test_status = "tool_error"
     THEN IF Contains(s.current_error, "Developer agent")
             \/ Contains(s.current_error, "No parsable code")
          THEN (IF ref_count < max_ref THEN "developer_agent_node" ELSE END)
          ELSE (IF ref_count < max_ref THEN "critique_agent_node" ELSE END)
     ELSE (IF ref_count < max_ref THEN "critique_agent_node" ELSE END)

\* decide_after_validation comparing the counter with <= instead of <.
decide_after_validation_OffByOne(s) ==
  IF s.validation_status = "pass" THEN "artifact_packaging_node"
  ELSE IF s.validation_status = "error" THEN END
  ELSE (IF s.refinement_count <= s.max_refinements THEN "critique_agent_node" ELSE END)

\* decide_after_validation sending an 'error' status round the retry loop like
\* a 'fail'.
decide_after_validation_ErrorRetries(s) ==
  IF s.validation_status = "pass" THEN "artifact_packaging_node"
  ELSE (IF s.refinement_count < s.max_refinements THEN "critique_agent_node" ELSE END)

\* decide_after_validation that packages the last attempt when the cap is
\* reached on a failed validation.
decide_after_validation_PackagesAtCap(s) ==
  IF s.validation_status = "pass" THEN "artifact_packaging_node"
  ELSE IF s.validation_status = "error" THEN END
  ELSE (IF s.refinement_count < s.max_refinements THEN "critique_agent_node"
        ELSE "artifact_packaging_node")

decide_after_validation(s) ==
  LET validation_status == s.validation_status
      ref_count == s.refinement_count
      max_ref == s.max_refinements
  IN IF validation_status = "pass" THEN "artifact_packaging_node"
     ELSE IF validation_status = "error" THEN END
     ELSE (IF ref_count < max_ref THEN "critique_agent_node" ELSE END)

decide_after_packaging(s) ==
  IF Contains(s.current_error, "Packaging Error") THEN END
  ELSE IF Truthy(s.packaged_artifacts_info) THEN "handoff_node"
  ELSE END

\* ---------------------------------------------------------------- build_graph
\* workflow.add_node
Nodes ==
  { "architect_agent_node", "planner_agent_node", "human_interaction_node",
    "test_case_designer_node", "developer_agent_node", "qa_agent_node",
    "validation_agent_node", "critique_agent_node", "artifact_packaging_node",
    "handoff_node" }

EntryPoint == "architect_agent_node"

\* workflow.add_edge: the stages with one unconditional outgoing edge
Edges ==
  [ n \in { "human_interaction_node", "developer_agent_node",
            "critique_agent_node", "handoff_node" } |->
      CASE n = "human_interaction_node" -> "planner_agent_node"
        [] n = "developer_agent_node" -> "qa_agent_node"
        [] n = "critique_agent_node" -> "developer_agent_node"
        [] OTHER -> END ]

\* workflow.add_conditional_edges: the stages with a router, and the
\* dispatch table registered for each (router output -> target)
RoutedStages ==
  { "architect_agent_node", "planner_agent_node", "test_case_designer_node",
    "qa_agent_node", "validation_agent_node", "artifact_packaging_node" }

DispatchKeys(stage) ==
  CASE stage = "architect_agent_node" -> {"planner_agent_node", END}
    [] stage = "planner_agent_node" ->
         {"human_interaction_node", "test_case_designer_node", END}
    [] stage = "test_case_designer_node" -> {"developer_agent_node", END}
    [] stage = "qa_agent_node" ->
         {"validation_agent_node", "critique_agent_node", "developer_agent_node", END}
    [] stage = "validation_agent_node" ->
         {"artifact_packaging_node", "critique_agent_node", END}
    [] stage = "artifact_packaging_node" -> {"handoff_node", END}
    [] OTHER -> {}

\* every table of build_graph maps a key to the stage of the same name
DispatchTable(stage) == [k \in DispatchKeys(stage) |-> k]

Router(stage, s) ==
  CASE stage = "architect_agent_node" -> decide_after_architect(s)
    [] stage = "planner_agent_node" -> decide_after_planner(s)
    [] stage = "test_case_designer_node" -> decide_after_test_case_designer(s)
    [] stage = "qa_agent_node" -> decide_after_qa(s)
    [] stage = "validation_agent_node" -> decide_after_validation(s)
    [] stage = "artifact_packaging_node" -> decide_after_packaging(s)

\* The engine's choice of the stage after `stage`, the record being s: the
\* unconditional edge, or the router's output looked up in the dispatch table.
UNROUTABLE == "unroutable"
NextStage(stage, s) ==
  IF stage \in DOMAIN Edges THEN Edges[stage]
  ELSE LET r == Router(stage, s)
       IN IF r \in DOMAIN DispatchTable(stage) THEN DispatchTable(stage)[r]
          ELSE UNROUTABLE

\* ---------------------------------------------------------------- engine (app.invoke)
VARIABLES
  state,      \* the state record
  pc,         \* the stage the engine executes next, or END
  last_node,  \* the stage executed last (START before the first)
  step,       \* stage executions so far
  engine,     \* "running", "ended" (Terminal reached), "out_of_steps"
              \* (recursion limit hit: the engine raises), "route_error",
              \* "stage_raised" (a stage raised: invoke raises with it)
  executions  \* history: how often each stage has been executed in the run

\* ---------------------------------------------------------------- front end state
VARIABLES
  initial_state,  \* the module-level dict demo.initial_state (one per process)
  session_state,  \* st.session_state of every browser session
  clicks          \* history: per session, whether "Reset State" and then
                  \* "Start Pipeline" were clicked since its last stream step

\* The browser sessions served by the one process.
Sessions == {"session_a", "session_b"}

\* The only dict the front end ever assigns to current_graph_state is the
\* object demo.initial_state itself: the session holds a reference to it.
INITIAL_STATE_REF == "main_pipeline.demo.initial_state"

\* stream_iterator is None, or the iterator app.stream returned.
NoIterator == <<>>

\* st.session_state before the first script run of the session.
FreshSession ==
  [ pipeline_active |-> FALSE,
    current_graph_state |-> NULL,
    stream_iterator |-> NoIterator,
    run_events_log |-> <<>> ]

\* ---- The execution/test tool (main_pipeline/tools.py)
VARIABLES
  tool            \* one call of code_tester_tool: its arguments and, once
                  \* the call is over, its outcome

\* No call of the tool is being followed.
NoToolCall == [ call |-> <<>>, outcome |-> <<>> ]

uivars == <<initial_state, session_state, clicks, tool>>

vars ==
  <<state, pc, last_node, step, engine, executions, initial_state, session_state,
    clicks, tool>>

\* run_demo: the record handed to app.invoke is demo.initial_state; no
\* front end session is active.
Init ==
  /\ \E maxp \in 0..MaxPlannerCap, maxr \in 0..MaxRefinementCap :
        state = InitialState(maxp, maxr)
  /\ pc = EntryPoint
  /\ last_node = START
  /\ step = 0
  /\ engine = "running"
  /\ executions = [n \in Nodes |-> 0]
  /\ initial_state = state
  /\ session_state = [sess \in Sessions |-> FreshSession]
  /\ clicks = [sess \in Sessions |-> "none"]
  /\ tool = NoToolCall

\* One stage execution: the stage's update replaces the record, then the
\* engine follows the edge out of the stage.
Advance(stage, s2) ==
  LET nxt == NextStage(stage, s2) IN
  /\ state' = s2
  /\ last_node' = stage
  /\ step' = step + 1
  /\ pc' = nxt
  /\ engine' = IF nxt = END THEN "ended"
               ELSE IF nxt = UNROUTABLE THEN "route_error"
               ELSE "running"
  /\ executions' = [executions EXCEPT ![stage] = @ + 1]
  /\ UNCHANGED uivars

CanRun(stage) == engine = "running" /\ pc = stage /\ step < RecursionLimit

RunArchitect ==
  /\ CanRun("architect_agent_node")
  /\ \E out \in ArchitectOutputs :
        Advance("architect_agent_node", ArchitectAgentNode(state, out))

RunPlanner ==
  /\ CanRun("planner_agent_node")
  /\ \E out \in PlannerOutputs :
        Advance("planner_agent_node", PlannerAgentNode(state, out))

RunHumanInteraction ==
  /\ CanRun("human_interaction_node")
  /\ Advance("human_interaction_node", HumanInteractionNode(state))

RunTestCaseDesigner ==
  /\ CanRun("test_case_designer_node")
  /\ \E out \in DesignerOutputs :
        Advance("test_case_designer_node", TestCaseDesignerNode(state, out))

RunDeveloper ==
  /\ CanRun("developer_agent_node")
  /\ \E out \in DeveloperOutputs :
        Advance("developer_agent_node", DeveloperAgentNode(state, out))

\* A stage raises: the exception leaves app.invoke, no record is returned and
\* no stage runs afterwards.
StageRaises(stage) ==
  /\ engine' = "stage_raised"
  /\ last_node' = stage
  /\ step' = step + 1
  /\ executions' = [executions EXCEPT ![stage] = @ + 1]
  /\ UNCHANGED <<state, pc>>
  /\ UNCHANGED uivars

RunQa ==
  /\ CanRun("qa_agent_node")
  /\ IF TestCaseLookupFails(state)
     THEN StageRaises("qa_agent_node")
     ELSE \E out \in QaOutputs :
            Advance("qa_agent_node", QaAgentNode(state, out))

RunValidation ==
  /\ CanRun("validation_agent_node")
  /\ \E out \in ValidationOutputs :
        Advance("validation_agent_node", ValidationAgentNode(state, out))

RunCritique ==
  /\ CanRun("critique_agent_node")
  /\ \E out \in CritiqueOutputs :
        Advance("critique_agent_node", CritiqueAgentNode(state, out))

RunPackaging ==
  /\ CanRun("artifact_packaging_node")
  /\ Advance("artifact_packaging_node", ArtifactPackagingNode(state))

RunHandoff ==
  /\ CanRun("handoff_node")
  /\ Advance("handoff_node", HandoffNode(state))

\* The recursion limit is reached with a stage still to run: the engine
\* raises and no stage executes afterwards.
OutOfSteps ==
  /\ engine = "running"
  /\ step >= RecursionLimit
  /\ engine' = "out_of_steps"
  /\ UNCHANGED <<state, pc, last_node, step, executions>>
  /\ UNCHANGED uivars

Next ==
  \/ RunArchitect
  \/ RunPlanner
  \/ RunHumanInteraction
  \/ RunTestCaseDesigner
  \/ RunDeveloper
  \/ RunQa
  \/ RunValidation
  \/ RunCritique
  \/ RunPackaging
  \/ RunHandoff
  \/ OutOfSteps

Spec == Init /\ [][Next]_vars

\* The engine runs the next stage as long as one is due.
FairSpec == Spec /\ WF_vars(Next)

\* ---------------------------------------------------------------- front end (ui/)
\* The caps demo.initial_state is built with when the environment sets none.
DefaultMaxPlannerIterations == 2
DefaultMaxRefinements == 3

\* The step ceiling run_pipeline gives app.stream.
StreamRecursionLimit == 250

\* Most entries the run_events_log of all sessions hold together.
MaxEvents == 5

\* The entries logged so far, all sessions together.
EventsLogged ==
  Len(session_state["session_a"].run_events_log)
    + Len(session_state["session_b"].run_events_log)

\* The answers a stage can get from its collaborator (stages without one
\* take NULL).
StageOutputs(stage) ==
  CASE stage = "architect_agent_node" -> ArchitectOutputs
    [] stage = "planner_agent_node" -> PlannerOutputs
    [] stage = "test_case_designer_node" -> DesignerOutputs
    [] stage = "developer_agent_node" -> DeveloperOutputs
    [] stage = "qa_agent_node" -> QaOutputs
    [] stage = "validation_agent_node" -> ValidationOutputs
    [] stage = "critique_agent_node" -> CritiqueOutputs
    [] stage \in {"human_interaction_node", "artifact_packaging_node",
                  "handoff_node"} -> {NULL}

\* The function build_graph registers for each stage name.
StageResult(stage, s, out) ==
  CASE stage = "architect_agent_node" -> ArchitectAgentNode(s, out)
    [] stage = "planner_agent_node" -> PlannerAgentNode(s, out)
    [] stage = "human_interaction_node" -> HumanInteractionNode(s)
    [] stage = "test_case_designer_node" -> TestCaseDesignerNode(s, out)
    [] stage = "developer_agent_node" -> DeveloperAgentNode(s, out)
    [] stage = "qa_agent_node" -> QaAgentNode(s, out)
    [] stage = "validation_agent_node" -> ValidationAgentNode(s, out)
    [] stage = "critique_agent_node" -> CritiqueAgentNode(s, out)
    [] stage = "artifact_packaging_node" -> ArtifactPackagingNode(s)
    [] stage = "handoff_node" -> HandoffNode(s)

\* app.stream(input, {"recursion_limit": 250}): an iterator over the stage
\* executions of a run that starts from a copy of the input record.
AppStream(input) ==
  [ state |-> input, pc |-> EntryPoint, last_node |-> START, step |-> 0 ]

\* dict.update: the keys of the update replace those of the dict.
DictUpdate(d, u) ==
  [ k \in DOMAIN d \cup DOMAIN u |-> IF k \in DOMAIN u THEN u[k] ELSE d[k] ]

\* ui/state.py: current_graph_state, when missing or None, becomes (a
\* reference to) demo.initial_state.
initialize_ui_state(ss) ==
  IF ss.current_graph_state = NULL
  THEN [ss EXCEPT !.current_graph_state = INITIAL_STATE_REF]
  ELSE ss

\* A script run in which "Start Pipeline" is clicked: initialize_ui_state,
\* then the button sets pipeline_active and asks for a rerun.
StartPipeline(sess) ==
  LET ss == initialize_ui_state(session_state[sess])
  IN /\ session_state' =
          [session_state EXCEPT ![sess] = [ss EXCEPT !.pipeline_active = TRUE]]
     /\ clicks' = [clicks EXCEPT ![sess] =
                      IF @ = "reset" THEN "reset_start" ELSE @]
     /\ UNCHANGED <<initial_state, state, pc, last_node, step, engine, executions, tool>>

\* A script run in which "Reset State" is clicked.
ResetState(sess) ==
  LET ss == initialize_ui_state(session_state[sess])
  IN /\ session_state' =
          [session_state EXCEPT ![sess] =
             [ss EXCEPT !.pipeline_active = FALSE,
                        !.current_graph_state = NULL]]
     /\ clicks' = [clicks EXCEPT ![sess] = "reset"]
     /\ UNCHANGED <<initial_state, state, pc, last_node, step, engine, executions, tool>>

\* run_pipeline, but the exhausted stream is left in stream_iterator.
run_pipeline_KeepsExhaustedIterator(sess) ==
  LET ss == initialize_ui_state(session_state[sess]) IN
  /\ UNCHANGED <<state, pc, last_node, step, engine, executions, tool>>
  /\ clicks' = [clicks EXCEPT ![sess] = IF ss.pipeline_active THEN "none" ELSE @]
  /\ IF ~ss.pipeline_active
     THEN /\ session_state' = [session_state EXCEPT ![sess] = ss]
          /\ UNCHANGED initial_state
     ELSE
       LET it == IF ss.stream_iterator = NoIterator
                 THEN AppStream(initial_state)
                 ELSE ss.stream_iterator[1]
       IN IF it.pc = END
          THEN /\ session_state' =
                    [session_state EXCEPT ![sess] =
                       [ss EXCEPT !.pipeline_active = FALSE]]
               /\ UNCHANGED initial_state
          ELSE IF it.step >= StreamRecursionLimit
          THEN /\ session_state' =
                    [session_state EXCEPT ![sess] =
                       [ss EXCEPT !.stream_iterator = << [it EXCEPT !.pc = END] >>]]
               /\ UNCHANGED initial_state
          ELSE /\ EventsLogged < MaxEvents
               /\ \E out \in StageOutputs(it.pc) :
                    LET node_name == it.pc
                        node_output == StageResult(it.pc, it.state, out)
                    IN /\ initial_state' = DictUpdate(initial_state, node_output)
                       /\ session_state' =
                            [session_state EXCEPT ![sess] =
                               [ss EXCEPT
                                  !.stream_iterator =
                                     << [ state |-> node_output,
                                          pc |-> NextStage(node_name, node_output),
                                          last_node |-> node_name,
                                          step |-> it.step + 1 ] >>,
                                  !.run_events_log = Append(@, node_name)]]

\* A script run without a click: initialize_ui_state, then run_pipeline.
run_pipeline(sess) ==
  LET ss == initialize_ui_state(session_state[sess]) IN
  /\ UNCHANGED <<state, pc, last_node, step, engine, executions, tool>>
  /\ clicks' = [clicks EXCEPT ![sess] = IF ss.pipeline_active THEN "none" ELSE @]
  /\ IF ~ss.pipeline_active
     THEN /\ session_state' = [session_state EXCEPT ![sess] = ss]
          /\ UNCHANGED initial_state
     ELSE
       LET it == IF ss.stream_iterator = NoIterator
                 THEN AppStream(initial_state)
                 ELSE ss.stream_iterator[1]
       IN IF it.pc = END
          THEN \* next() gives the sentinel
               /\ session_state' =
                    [session_state EXCEPT ![sess] =
                       [ss EXCEPT !.pipeline_active = FALSE,
                                  !.stream_iterator = NoIterator]]
               /\ UNCHANGED initial_state
          ELSE IF it.step >= StreamRecursionLimit
          THEN \* next() raises: the script run ends there, the generator
               \* is finished
               /\ session_state' =
                    [session_state EXCEPT ![sess] =
                       [ss EXCEPT !.stream_iterator = << [it EXCEPT !.pc = END] >>]]
               /\ UNCHANGED initial_state
          ELSE /\ EventsLogged < MaxEvents
               /\ \E out \in StageOutputs(it.pc) :
                    LET node_name == it.pc
                        node_output == StageResult(it.pc, it.state, out)
                    IN /\ initial_state' = DictUpdate(initial_state, node_output)
                       /\ session_state' =
                            [session_state EXCEPT ![sess] =
                               [ss EXCEPT
                                  !.stream_iterator =
                                     << [ state |-> node_output,
                                          pc |-> NextStage(node_name, node_output),
                                          last_node |-> node_name,
                                          step |-> it.step + 1 ] >>,
                                  !.run_events_log = Append(@, node_name)]]

\* streamlit_app.py: the process has imported demo.initial_state; no session
\* has run its script yet.  The engine of run_demo is not used.
UiInit ==
  /\ initial_state =
       InitialState(DefaultMaxPlannerIterations, DefaultMaxRefinements)
  /\ session_state = [sess \in Sessions |-> FreshSession]
  /\ clicks = [sess \in Sessions |-> "none"]
  /\ tool = NoToolCall
  /\ state = initial_state
  /\ pc = EntryPoint
  /\ last_node = START
  /\ step = 0
  /\ engine = "running"
  /\ executions = [n \in Nodes |-> 0]

UiNext ==
  \E sess \in Sessions :
    \/ StartPipeline(sess)
    \/ ResetState(sess)
    \/ run_pipeline(sess)

UiSpec == UiInit /\ [][UiNext]_vars

\* ------------------------------------------------------------------
\* The execution/test tool: code_tester_tool (main_pipeline/tools.py)
\* ------------------------------------------------------------------
\* Values the functions under test receive and return are 0..MaxValue.
MaxValue == 2
Values == 0..MaxValue

\* Names a test case may ask for.
FunctionNames == {"add", "greet"}

\* What exec(code_string, scope, scope) does with a code string: it runs to
\* the end, it raises an exception derived from Exception (SyntaxError,
\* NameError, ...), or it raises one derived from BaseException only
\* (SystemExit from sys.exit() or exit(), KeyboardInterrupt).
LoadOutcomes == {"ok", "Exception", "BaseException"}

\* What the object bound to the requested name does when it is called.
Bodies == {"sum_of_two", "identity", "raise_Exception", "raise_SystemExit",
           "not_callable"}

\* A code string, by what Python does with it: whether it is falsy (None or
\* ""), what executing it does, the names it binds, and what those do.
EmptyCode ==
  [ falsy |-> TRUE, load |-> "ok", defines |-> {}, body |-> "not_callable" ]

CodeStrings ==
  {EmptyCode} \cup
  [ falsy : {FALSE}, load : LoadOutcomes,
    defines : {{}, {"add"}, {"add", "greet"}}, body : Bodies ]

\* Argument tuples of a test case.
TestInputs == {<<>>, <<0>>, <<1>>, <<1, 1>>, <<2, 1>>}

\* scope[function_name](*test_inputs): the value returned, or the class of
\* the exception raised (a wrong number of arguments and a call of something
\* that is not callable are TypeErrors).
CallFunction(body, test_inputs) ==
  CASE body = "sum_of_two" ->
         IF Len(test_inputs) = 2
         THEN [ kind |-> "returns", value |-> test_inputs[1] + test_inputs[2] ]
         ELSE [ kind |-> "Exception", value |-> 0 ]
    [] body = "identity" ->
         IF Len(test_inputs) = 1
         THEN [ kind |-> "returns", value |-> test_inputs[1] ]
         ELSE [ kind |-> "Exception", value |-> 0 ]
    [] body = "raise_Exception" -> [ kind |-> "Exception", value |-> 0 ]
    [] body = "raise_SystemExit" -> [ kind |-> "BaseException", value |-> 0 ]
    [] body = "not_callable" -> [ kind |-> "Exception", value |-> 0 ]

\* The dict the tool returns; actual_output is a key only of some returns.
ToolReturns(status, message, actual) ==
  [ raised |-> NULL, status |-> status, message |-> message,
    actual_output |-> actual ]

\* An exception leaves the call: no dict is returned.
ToolRaises(exception) ==
  [ raised |-> exception, status |-> NULL, message |-> NULL,
    actual_output |-> <<>> ]

\* code_tester_tool: "except Exception" catches the exceptions derived from
\* Exception and no other.
code_tester_tool(code_string, function_name, test_inputs, expected_output) ==
  IF code_string.falsy
  THEN ToolReturns("compilation_error", "No code provided.", <<>>)
  ELSE IF code_string.load = "Exception"
  THEN ToolReturns("runtime_error", "str(e)", <<>>)
  ELSE IF code_string.load = "BaseException"
  THEN ToolRaises("BaseException")
  ELSE IF function_name \notin code_string.defines
  THEN ToolReturns("compilation_error", "Function not defined.", <<>>)
  ELSE LET actual == CallFunction(code_string.body, test_inputs)
       IN IF actual.kind = "Exception"
          THEN ToolReturns("runtime_error", "str(e)", <<>>)
          ELSE IF actual.kind = "BaseException"
          THEN ToolRaises("BaseException")
          ELSE IF actual.value = expected_output
          THEN ToolReturns("success", "Test passed.", <<actual.value>>)
          ELSE ToolReturns("test_fail", "Input, Expected, Got",
                           <<actual.value>>)

\* A call of the tool is about to be made with arguments of every kind.
ToolInit ==
  /\ tool \in [ call : { << [ code_string |-> c, function_name |-> f,
                              test_inputs |-> i, expected_output |-> e ] >> :
                           c \in CodeStrings, f \in FunctionNames,
                           i \in TestInputs, e \in Values },
                 outcome : {<<>>} ]
  /\ initial_state =
       InitialState(DefaultMaxPlannerIterations, DefaultMaxRefinements)
  /\ session_state = [sess \in Sessions |-> FreshSession]
  /\ clicks = [sess \in Sessions |-> "none"]
  /\ state = initial_state
  /\ pc = EntryPoint
  /\ last_node = START
  /\ step = 0
  /\ engine = "running"
  /\ executions = [n \in Nodes |-> 0]

\* The call is made.
CallTool ==
  /\ tool.call # <<>>
  /\ tool.outcome = <<>>
  /\ LET a == tool.call[1]
     IN tool' = [tool EXCEPT !.outcome =
                   << code_tester_tool(a.code_string, a.function_name,
                                       a.test_inputs, a.expected_output) >>]
  /\ UNCHANGED <<state, pc, last_node, step, engine, executions,
                 initial_state, session_state, clicks>>

ToolNext == CallTool

ToolSpec == ToolInit /\ [][ToolNext]_vars

\* ================================================================ claims
\* The texts a stage can leave in current_error.
ErrorTexts ==
  { ArchitectErrorText, PlannerErrorMissingDecision, PlannerErrorNoPlan,
    PlannerErrorInvalid, DeveloperNoCodeText, TcdNoTaskText, TcdInvalidText,
    TcdMalformedText, TcdExceptionText, ValidationNoCodeText,
    CritiqueNoCodeText, ErrPlanText }

ValidationStatuses == {"pass", "fail", "error"}

Max(a, b) == IF a >= b THEN a ELSE b

\* ---------------------------------------------------------------- C1
\* C1: in every reachable state each router returns END or a key of the
\* dispatch table registered for its stage, and every dispatch-table value
\* and every unconditional edge target is a registered stage or END.
C1_RoutersExhaustive ==
  /\ \A stage \in RoutedStages :
        Router(stage, state) \in DOMAIN DispatchTable(stage) \cup {END}
  /\ \A stage \in RoutedStages : \A k \in DOMAIN DispatchTable(stage) :
        DispatchTable(stage)[k] \in Nodes \cup {END}
  /\ \A n \in DOMAIN Edges : Edges[n] \in Nodes \cup {END}
  /\ engine # "route_error"

\* A router has sent the run to a stage of its table: the planner's router
\* to the test-case designer, and later QA's router back to the developer.
C1_Witness ==
  /\ last_node = "qa_agent_node"
  /\ pc = "developer_agent_node"
  /\ decide_after_planner([state EXCEPT !.current_error = NULL]) = "test_case_designer_node"

\* ---------------------------------------------------------------- C2
\* The most executions each looping stage gets in a run with these caps.
PlannerRuns(s) == Max(1, s.max_planner_iterations)
DeveloperRuns(s) == Max(1, s.max_refinements)

\* The most stage executions a run needs to reach Terminal: the architect,
\* the planner and the suspension stage between two planner runs, the
\* designer, developer + QA + validation per attempt with a critique between
\* two attempts, packaging and handoff.
StepsToTerminal(s) == 2 * PlannerRuns(s) + 4 * DeveloperRuns(s) + 2

\* C2 as stated: every run reaches Terminal, within the step ceiling (a run
\* that has stopped has reached Terminal).
C2_AlwaysReachesTerminal ==
  engine # "running" => (engine = "ended" /\ pc = END /\ step <= RecursionLimit)

\* C2 as amended: every run halts, at Terminal or at the step ceiling, after
\* at most RecursionLimit stage executions; the loops are bounded by their
\* caps (the planner runs at most max(1, max_planner_iterations) times, the
\* developer at most max(1, max_refinements) times), so a run needs at most
\* StepsToTerminal stage executions to reach Terminal, and reaches it
\* whenever that is within the ceiling.
C2_Halts ==
  /\ <>(engine # "running")
  /\ [](/\ step <= RecursionLimit
        /\ step <= StepsToTerminal(state)
        /\ state.planner_iteration_count <= PlannerRuns(state)
        /\ state.refinement_count <= DeveloperRuns(state)
        /\ (engine = "out_of_steps" => StepsToTerminal(state) > RecursionLimit)
        /\ (engine \notin {"running", "out_of_steps"} => (engine = "ended" /\ pc = END)))

\* A run that went round both loops as often as its caps allow and ended.
C2_Witness ==
  /\ engine = "ended"
  /\ state.max_planner_iterations = 2 /\ state.planner_iteration_count = 2
  /\ state.max_refinements >= 3 /\ state.refinement_count = state.max_refinements
  /\ Len(state.feedback_history) >= 2

\* ---------------------------------------------------------------- C3
\* The success indication: the handoff stage ran and every phase output is
\* populated.
Success(s) ==
  /\ Truthy(s.handoff_summary)
  /\ Truthy(s.architectural_decision)
  /\ Truthy(s.planned_task_description)
  /\ Truthy(s.generated_code)
  /\ s.current_test_status = "success"
  /\ s.validation_status = "pass"
  /\ Truthy(s.packaged_artifacts_info)

EndedWithoutError(s, last) ==
  \/ /\ last = "architect_agent_node"
     /\ s.architectural_decision = ArchDecisionEmptyLanguage
  \/ /\ last = "planner_agent_node"
     /\ Truthy(s.clarification_questions_for_user)
     /\ s.planner_iteration_count >= s.max_planner_iterations
  \/ /\ last = "qa_agent_node"
     /\ s.current_test_status \in TestStatuses \ {"success"}
     /\ s.refinement_count >= s.max_refinements
  \/ /\ last = "validation_agent_node"
     /\ s.validation_status = "fail"
     /\ s.refinement_count >= s.max_refinements
  \/ /\ last = "validation_agent_node"
     /\ s.validation_status = "error"

FailureAtCap ==
  /\ state.refinement_count = state.max_refinements
  /\ \/ /\ last_node = "qa_agent_node"
        /\ state.current_test_status \in TestStatuses \ {"success"}
     \/ /\ last_node = "validation_agent_node"
        /\ state.validation_status = "fail"

\* a current_error of the 'refinement cap exceeded' kind
IsRefinementCapError(e) == Contains(e, "refinement cap exceeded")

BackwardStages == {"critique_agent_node", "developer_agent_node"}

\* C5: once refinement_count >= max_refinements, decide_after_qa and
\* decide_after_validation return neither critique_agent_node nor
\* developer_agent_node, for every current_test_status, validation_status and
\* current_error; the run goes to Terminal instead of looping again.
C5_CapBlocksBackwardEdges ==
  /\ \A ts \in TestStatuses \cup {NULL}, vs \in ValidationStatuses \cup {NULL},
        err \in ErrorTexts \cup {NULL} :
        LET s == [state EXCEPT !.current_test_status = ts,
                               !.validation_status = vs,
                               !.current_error = err]
        IN s.refinement_count >= s.max_refinements =>
             /\ decide_after_qa(s) \notin BackwardStages
             /\ decide_after_validation(s) \notin BackwardStages
  /\ (/\ state.refinement_count >= state.max_refinements
      /\ last_node \in {"qa_agent_node", "validation_agent_node"}
      /\ pc # "artifact_packaging_node" /\ pc # "validation_agent_node")
       => pc = END

\* The cap is reached and a test has failed: the run is at Terminal.
C5_Witness ==
  /\ state.refinement_count >= state.max_refinements
  /\ state.max_refinements >= 1
  /\ last_node = "qa_agent_node"
  /\ state.current_test_status = "test_fail"
  /\ pc = END

\* ---------------------------------------------------------------- C6
\* The step just taken is an execution of `stage`.
Executed(stage) == step' = step + 1 /\ last_node' = stage

\* C6: whenever a planner execution increments planner_iteration_count,
\* refinement_count is 0 in the resulting record, on the first planner
\* iteration and on every later one.
C6_RefinementZeroAfterPlanner ==
  [][ ( /\ Executed("planner_agent_node")
        /\ state'.planner_iteration_count = state.planner_iteration_count + 1 )
      => state'.refinement_count = 0 ]_vars

\* The planner has run a second time (after the suspension stage).
C6_Witness ==
  /\ last_node = "planner_agent_node"
  /\ state.planner_iteration_count = 2
  /\ state.refinement_count = 0

\* ---------------------------------------------------------------- C7
\* C7: from one stage execution to the next neither counter decreases,
\* except that the architect sets both to 0 and the planner's first iteration
\* sets refinement_count to 0.
C7_CountersMonotone ==
  [][ /\ \/ state'.planner_iteration_count >= state.planner_iteration_count
         \/ ( Executed("architect_agent_node")
              /\ state'.planner_iteration_count = 0 )
      /\ \/ state'.refinement_count >= state.refinement_count
         \/ ( Executed("architect_agent_node") /\ state'.refinement_count = 0 )
         \/ ( Executed("planner_agent_node")
              /\ state'.planner_iteration_count = 1
              /\ state'.refinement_count = 0 ) ]_vars

\* Both counters have grown past 1 in one run.
C7_Witness ==
  /\ state.planner_iteration_count >= 2
  /\ state.refinement_count >= 3
  /\ last_node = "developer_agent_node"

\* ---------------------------------------------------------------- C8
Prefix(a, b) == Len(a) <= Len(b) /\ SubSeq(b, 1, Len(a)) = a

\* C8: feedback_history is never truncated or overwritten (after every stage
\* execution the previous log is a prefix of the new one), and every
\* traversal of a refinement loop makes it strictly longer: the critique
\* execution of the critique -> developer loop appends to it, and when QA
\* sends the run straight back to the developer the log ends with the entry
\* of the attempt that failed.
C8_FeedbackGrowsEveryLoop ==
  [][ /\ Prefix(state.feedback_history, state'.feedback_history)
      /\ Executed("critique_agent_node")
           => Len(state'.feedback_history) > Len(state.feedback_history)
      /\ ( Executed("qa_agent_node") /\ pc' = "developer_agent_node" )
           => /\ Len(state'.feedback_history) > 0
              /\ state'.feedback_history[Len(state'.feedback_history)]
                   = FeedbackEntry("DevAttempt failed", state'.refinement_count)
    ]_vars

\* ---------------------------------------------------------------- C9
\* The routing C9 states for the planner's router.
PlannerRoutingStated(s) ==
  IF Truthy(s.current_error) /\ s.current_error \in TextsContaining("Planner Error")
  THEN END
  ELSE IF Truthy(s.clarification_questions_for_user)
  THEN ( IF s.planner_iteration_count < s.max_planner_iterations
         THEN "human_interaction_node" ELSE END )
  ELSE IF Truthy(s.planned_task_description) THEN "test_case_designer_node"
  ELSE END

\* C9: decide_after_planner returns Terminal on a 'Planner Error' (before
\* anything else), else the suspension stage on questions under the cap,
\* Terminal on questions at or above the cap, the test-case designer on a
\* plan without questions, and Terminal otherwise - for every error text,
\* questions and plan, with the counters of every reachable record; and the
\* engine goes where it says after a planner execution.
C9_PlannerRouting ==
  /\ \A err \in ErrorTexts \cup {NULL}, q \in {NULL, Questions},
        plan \in {NULL, "", PlanText, ErrPlanText} :
        LET s == [state EXCEPT !.current_error = err,
                               !.clarification_questions_for_user = q,
                               !.planned_task_description = plan]
        IN decide_after_planner(s) = PlannerRoutingStated(s)
  /\ last_node = "planner_agent_node" => pc = PlannerRoutingStated(state)

\* Scenario A: the planner asked questions under the cap and the run is at
\* the suspension stage.
C9_Witness ==
  /\ last_node = "planner_agent_node"
  /\ Truthy(state.clarification_questions_for_user)
  /\ state.planner_iteration_count < state.max_planner_iterations
  /\ pc = "human_interaction_node"

\* ---------------------------------------------------------------- C10
\* C10: when QA reports a functional test failure with refinement_count =
\* n < max_refinements, the engine goes to critique_agent_node; that critique
\* execution appends to feedback_history, leaves the counter alone and is
\* followed by developer_agent_node; and that developer execution leaves
\* refinement_count = n + 1.
C10_FailureCritiqueDeveloper ==
  [][ /\ ( /\ Executed("qa_agent_node")
           /\ state'.current_test_status \in FunctionalFailures
           /\ state'.refinement_count < state'.max_refinements )
         => pc' = "critique_agent_node"
      /\ ( /\ Executed("critique_agent_node")
           /\ last_node = "qa_agent_node"
           /\ state.current_test_status \in FunctionalFailures )
         => /\ Len(state'.feedback_history) > Len(state.feedback_history)
            /\ Prefix(state.feedback_history, state'.feedback_history)
            /\ state'.refinement_count = state.refinement_count
            /\ pc' = "developer_agent_node"
      /\ ( /\ Executed("developer_agent_node")
           /\ last_node = "critique_agent_node"
           /\ state.current_test_status \in FunctionalFailures )
         => state'.refinement_count = state.refinement_count + 1
    ]_vars

\* Scenario B: the test failed on attempt 1, the critique of attempt 1 is the
\* last entry of the log and the developer has run again, counter now 2.
C10_Witness ==
  /\ last_node = "developer_agent_node"
  /\ state.current_test_status \in FunctionalFailures
  /\ state.refinement_count = 2
  /\ state.max_refinements = 3
  /\ Len(state.feedback_history) > 0
  /\ state.feedback_history[Len(state.feedback_history)] = FeedbackEntry("Critique", 1)

\* ---------------------------------------------------------------- C11
\* C11: with validation_status = error, decide_after_validation returns
\* Terminal for every refinement_count and max_refinements; after a validation
\* execution that reports error the run is at Terminal (neither critique nor
\* developer executes afterwards), and the run goes from validation to
\* critique only with validation_status = fail.
C11_ValidationErrorIsTerminal ==
  /\ \A rc \in 0..(MaxRefinementCap + 1), mr \in 0..(MaxRefinementCap + 1) :
        decide_after_validation([state EXCEPT !.validation_status = "error",
                                              !.refinement_count = rc,
                                              !.max_refinements = mr]) = END
  /\ ( last_node = "validation_agent_node" /\ state.validation_status = "error" )
       => ( pc = END /\ engine = "ended" )
  /\ ( last_node = "validation_agent_node" /\ pc \in BackwardStages )
       => state.validation_status = "fail"

\* Scenario D: the reviewer's answer was malformed on the first attempt, with
\* refinements left, and the run has ended.
C11_Witness ==
  /\ last_node = "validation_agent_node"
  /\ state.validation_status = "error"
  /\ Truthy(state.generated_code)
  /\ state.refinement_count < state.max_refinements
  /\ engine = "ended"

\* ---------------------------------------------------------------- C12
\* The iterator of a session before and after a step, when the session has
\* one at both ends and the step is a stage execution of that iterator.
StreamStepped(sess) ==
  /\ session_state[sess].stream_iterator # NoIterator
  /\ session_state'[sess].stream_iterator # NoIterator
  /\ session_state'[sess].stream_iterator[1].step
       = session_state[sess].stream_iterator[1].step + 1

\* C12: in streaming mode, once the suspension stage has been yielded, the
\* stream executes no further stage (the planner is not executed again)
\* unless the record the run works on carries input supplied from outside
\* (clarified_user_input); stepping the stream alone never goes past the
\* suspension stage.
C12_StreamPausesAtSuspension ==
  [][ \A sess \in Sessions :
        ( /\ StreamStepped(sess)
          /\ session_state[sess].stream_iterator[1].last_node
               = "human_interaction_node" )
        => Truthy(session_state[sess].stream_iterator[1].state.clarified_user_input)
    ]_vars

\* ---------------------------------------------------------------- C13
\* C13: whenever the planner is executed right after the suspension stage,
\* the record it receives carries the human's answers in
\* clarified_user_input (non-empty) and no outstanding questions in
\* clarification_questions_for_user.
C13_PlannerReenteredWithAnswers ==
  [][ ( Executed("planner_agent_node") /\ last_node = "human_interaction_node" )
      => /\ Truthy(state.clarified_user_input)
         /\ ~Truthy(state.clarification_questions_for_user) ]_vars

\* ---------------------------------------------------------------- C14
\* C14: streaming follows the transitions of run-to-completion, and after
\* every k yielded steps the caller's accumulated record (the dict its
\* current_graph_state refers to, after merging the k updates in order) is
\* the engine's record after k stage executions, the last logged stage name
\* is the stage the engine executed last and the stage due next is the one
\* the graph's edges give for that record.
C14_StreamEqualsRunToCompletion ==
  \A sess \in Sessions :
    LET ss == session_state[sess] IN
    ( ss.stream_iterator # NoIterator /\ ss.current_graph_state # NULL ) =>
      LET it == ss.stream_iterator[1] IN
      /\ initial_state = it.state
      /\ Len(ss.run_events_log) >= it.step
      /\ ss.run_events_log[Len(ss.run_events_log)] = it.last_node
      /\ it.pc = NextStage(it.last_node, it.state)

\* ---------------------------------------------------------------- C15
\* The record a session observes: the dict its current_graph_state refers to.
Observed(sess) ==
  IF session_state[sess].current_graph_state = NULL THEN <<>>
  ELSE <<initial_state>>

\* C15: two runs share no mutable state: a streamed step merged by one
\* session never changes the record another session observes, and every run
\* starts (its iterator is created) from the original initial record.
C15_RunsShareNothing ==
  [][ \A a \in Sessions :
        /\ StreamStepped(a) =>
             \A b \in Sessions \ {a} :
                ( Observed(b) # <<>> /\ Observed(b)' # <<>> )
                  => Observed(b)' = Observed(b)
        /\ ( /\ session_state[a].stream_iterator = NoIterator
             /\ session_state'[a].stream_iterator # NoIterator )
           => initial_state =
                InitialState(DefaultMaxPlannerIterations, DefaultMaxRefinements)
    ]_vars

\* ---------------------------------------------------------------- C16
\* The fields the claim names as owned by the stages after the planner.
DownstreamCleared(s) ==
  /\ s.generated_code = NULL
  /\ s.current_test_status = NULL
  /\ s.current_test_message = NULL
  /\ s.validation_status = NULL
  /\ s.validation_issues = <<>>
  /\ s.critique = NULL
  /\ s.packaged_artifacts_info = NULL
  /\ s.handoff_summary = NULL

\* C16: after every planner execution that starts a plan phase (one that
\* calls the reasoning service and counts an iteration), generated_test_cases,
\* generated_code, current_test_status, current_test_message,
\* validation_status, validation_issues, critique, packaged_artifacts_info
\* and handoff_summary are all null or empty in the resulting record.
C16_PlannerClearsDownstream ==
  [][ ( /\ Executed("planner_agent_node")
        /\ state'.planner_iteration_count = state.planner_iteration_count + 1 )
      => /\ DownstreamCleared(state')
         /\ state'.generated_test_cases = <<>> ]_vars

\* ---------------------------------------------------------------- C17
\* The record of the current state with the two status fields unset and the
\* given refinement counter and error text (max_refinements is the run's).
WithUnsetStatus(rc, err) ==
  [state EXCEPT !.current_test_status = NULL,
                !.validation_status = NULL,
                !.refinement_count = rc,
                !.current_error = err]

PhaseFatalTexts(stage) ==
  CASE stage = "architect_agent_node" -> {ArchitectErrorText}
    [] stage = "planner_agent_node" ->
         {PlannerErrorMissingDecision, PlannerErrorNoPlan, PlannerErrorInvalid}
    [] stage = "test_case_designer_node" ->
         {TcdNoTaskText, TcdInvalidText, TcdMalformedText, TcdExceptionText}
    [] stage = "validation_agent_node" -> {ValidationNoCodeText}
    [] stage = "artifact_packaging_node" -> {PackagingErrorText}
    [] OTHER -> {}

PhaseFatalStages ==
  { "architect_agent_node", "planner_agent_node", "test_case_designer_node",
    "validation_agent_node" }

\* The record of the current state, as it is and with each upstream field a
\* stage requires missing.
WithMissingUpstream ==
  { state,
    [state EXCEPT !.architectural_decision = NULL],
    [state EXCEPT !.planned_task_description = NULL],
    [state EXCEPT !.generated_code = NULL] }

\* C18: when a stage leaves a phase-fatal error in current_error, the router
\* evaluated next returns Terminal - in every run (the run has ended, the
\* final record carrying that error), and for every stage execution on a
\* reachable record whose required upstream field is missing; a packaging
\* error makes decide_after_packaging return Terminal.
C18_PhaseFatalEndsRun ==
  /\ ( /\ last_node \in PhaseFatalStages
       /\ state.current_error \in PhaseFatalTexts(last_node) )
     => ( pc = END /\ engine = "ended" )
  /\ \A stage \in PhaseFatalStages : \A s \in WithMissingUpstream :
       \A out \in StageOutputs(stage) :
          LET r == StageResult(stage, s, out) IN
          r.current_error \in PhaseFatalTexts(stage)
            => NextStage(stage, r) = END
  /\ NextStage("artifact_packaging_node",
               [state EXCEPT !.current_error = PackagingErrorText]) = END

\* The test-case designer got an invalid answer and the run has ended with
\* its error in the final record.
C18_Witness ==
  /\ last_node = "test_case_designer_node"
  /\ state.current_error = TcdInvalidText
  /\ state.generated_test_cases = <<>>
  /\ engine = "ended"

\* ---------------------------------------------------------------- C20
\* a current_error of the 'step ceiling exceeded' kind
IsStepCeilingError(e) == Contains(e, "step ceiling exceeded")

\* app.invoke has returned a state record to its caller.
InvokeReturned == engine = "ended"

\* C20: when the step ceiling is hit before Terminal is reached, the engine
\* has halted with current_error set to a 'step ceiling exceeded' kind and
\* has returned the last state record to the caller.
C20_CeilingSetsErrorAndReturns ==
  ( step >= RecursionLimit /\ pc # END /\ engine # "running" ) =>
    /\ IsStepCeilingError(state.current_error)
    /\ InvokeReturned

\* ---------------------------------------------------------------- C21
\* architectural_decision.get("chosen_language") of the decisions the
\* architect can leave in the record.
ChosenLanguage(d) ==
  CASE d = ArchDecision -> "python"
    [] d = ArchDecisionEmptyLanguage -> ""
    [] OTHER -> NULL

\* The routing C21 states for the architect's router.
ArchitectRoutingStated(s) ==
  IF /\ ~Contains(s.current_error, "Architect Error")
     /\ Truthy(s.architectural_decision)
     /\ Truthy(ChosenLanguage(s.architectural_decision))
  THEN "planner_agent_node"
  ELSE END

\* C21: decide_after_architect returns planner_agent_node exactly when
\* current_error contains no 'Architect Error' and architectural_decision is
\* present with a non-empty chosen_language, and Terminal in every other
\* state - for every error text and decision on every reachable record; and
\* the engine goes where it says after an architect execution.
C21_ArchitectRouting ==
  /\ \A err \in ErrorTexts \cup {NULL, ""},
        d \in {NULL, ArchDecision, ArchDecisionEmptyLanguage} :
        LET s == [state EXCEPT !.current_error = err,
                               !.architectural_decision = d]
        IN decide_after_architect(s) = ArchitectRoutingStated(s)
  /\ last_node = "architect_agent_node" => pc = ArchitectRoutingStated(state)

\* Scenario A: the architect returned a decision with a language and the
\* planner is due.
C21_Witness ==
  /\ last_node = "architect_agent_node"
  /\ state.architectural_decision = ArchDecision
  /\ ~Truthy(state.current_error)
  /\ pc = "planner_agent_node"

\* ---------------------------------------------------------------- C22
\* The routing C22 states for the test-case designer's router.
DesignerRoutingStated(s) ==
  IF /\ ~Contains(s.current_error, "Test Case Designer")
     /\ s.generated_test_cases # <<>>
  THEN "developer_agent_node"
  ELSE END

\* C22: decide_after_test_case_designer returns developer_agent_node exactly
\* when current_error does not contain 'Test Case Designer' and
\* generated_test_cases is a non-empty list, and Terminal otherwise - for
\* every error text and test-case list on every reachable record; the engine
\* goes where it says after a designer execution, and the developer stage is
\* never due with an empty test-case list.
C22_DesignerRouting ==
  /\ \A err \in ErrorTexts \cup {NULL, ""},
        cases \in {<<>>, DemoTestCases, DesignedTestCases} :
        LET s == [state EXCEPT !.current_error = err,
                               !.generated_test_cases = cases]
        IN decide_after_test_case_designer(s) = DesignerRoutingStated(s)
  /\ last_node = "test_case_designer_node" => pc = DesignerRoutingStated(state)
  /\ pc = "developer_agent_node" => Len(state.generated_test_cases) > 0

\* The designer returned valid test cases and the developer is due.
C22_Witness ==
  /\ last_node = "test_case_designer_node"
  /\ state.generated_test_cases = DesignedTestCases
  /\ pc = "developer_agent_node"

\* ---------------------------------------------------------------- C23
\* C23: the status a router reads was written by the stage execution just
\* before it (QA always writes current_test_status, validation always writes
\* validation_status), and validation_status is null from every developer or
\* QA execution until the next validation execution.
C23_NoStaleStatus ==
  [][ /\ Executed("qa_agent_node") => state'.current_test_status \in TestStatuses
      /\ Executed("validation_agent_node")
           => state'.validation_status \in ValidationStatuses
      /\ ( Executed("developer_agent_node") \/ Executed("qa_agent_node") )
           => state'.validation_status = NULL
    ]_vars

\* ---------------------------------------------------------------- C24
\* Where a retry goes while refinements are left, and Terminal from the cap on.
UnderCap(s, stage) == IF s.refinement_count < s.max_refinements THEN stage ELSE END

\* C24: a developer execution that produces no parsable code leaves
\* generated_code null, current_test_status = tool_error and a current_error
\* naming the developer agent; the QA execution after it leaves that error in
\* place, and decide_after_qa sends the run straight back to
\* developer_agent_node while refinement_count < max_refinements and to
\* Terminal from the cap on; a tool_error reported by QA itself (code was
\* there) goes to critique_agent_node under the same cap.  The router does
\* the same for every counter value and error text on every reachable record.
C24_ToolErrorRetry ==
  [][ /\ ( Executed("developer_agent_node")
           /\ state'.current_error = DeveloperNoCodeText )
         => /\ state'.generated_code = NULL
            /\ state'.current_test_status = "tool_error"
            /\ Contains(state'.current_error, "Developer agent")
            /\ pc' = "qa_agent_node"
      /\ ( /\ Executed("qa_agent_node")
           /\ state.generated_code = NULL
           /\ Contains(state.current_error, "Developer agent") )
         => /\ state'.current_error = state.current_error
            /\ state'.current_test_status = "tool_error"
            /\ pc' = UnderCap(state', "developer_agent_node")
      /\ ( /\ Executed("qa_agent_node")
           /\ Truthy(state.generated_code)
           /\ state'.current_test_status = "tool_error" )
         => pc' = UnderCap(state', "critique_agent_node")
      /\ \A rc \in 0..(MaxRefinementCap + 1),
            err \in { e \in ErrorTexts \cup {NULL} :
                        /\ ~Contains(e, "Architect Error")
                        /\ ~Contains(e, "Planner Error") } :
            LET s == [state EXCEPT !.current_test_status = "tool_error",
                                   !.refinement_count = rc,
                                   !.current_error = err]
            IN decide_after_qa(s) =
                 IF Contains(err, "Developer agent")
                 THEN UnderCap(s, "developer_agent_node")
                 ELSE UnderCap(s, "critique_agent_node")
    ]_vars

\* Scenario C: the developer returned no code on its first attempt, QA left
\* the developer's error in place and the developer is due again, no critique
\* in between.
C24_Witness ==
  /\ last_node = "qa_agent_node"
  /\ state.generated_code = NULL
  /\ state.current_test_status = "tool_error"
  /\ state.current_error = DeveloperNoCodeText
  /\ state.refinement_count < state.max_refinements
  /\ pc = "developer_agent_node"
  /\ executions["critique_agent_node"] = 0

\* ---------------------------------------------------------------- C25
\* The stages that are neither the planner nor the developer and run inside
\* the loops.
NonCountingStages ==
  { "human_interaction_node", "qa_agent_node", "validation_agent_node",
    "critique_agent_node" }

SameCounters(s, r) ==
  /\ r.planner_iteration_count = s.planner_iteration_count
  /\ r.refinement_count = s.refinement_count

\* C25: each planner execution that calls the reasoning service (it has an
\* architectural decision) leaves planner_iteration_count exactly 1 higher
\* than on entry; each developer execution, whether it produced code or not,
\* leaves refinement_count exactly 1 higher than on entry; the suspension
\* stage, QA, validation and critique change neither counter; and a router
\* changes nothing: the record after a step is exactly what the stage
\* returned.  Checked on the steps of every run and for every answer of the
\* collaborator on every reachable record.
C25_CountersGrowByOne ==
  [][ /\ ( Executed("planner_agent_node") /\ Truthy(state.architectural_decision) )
         => state'.planner_iteration_count = state.planner_iteration_count + 1
      /\ Executed("developer_agent_node")
         => /\ state'.refinement_count = state.refinement_count + 1
            /\ state'.planner_iteration_count = state.planner_iteration_count
      /\ \A stage \in NonCountingStages :
            Executed(stage) => SameCounters(state, state')
      /\ \A stage \in Nodes :
            Executed(stage) =>
              \E out \in StageOutputs(stage) : state' = StageResult(stage, state, out)
      /\ \A s \in WithMissingUpstream :
           /\ \A out \in PlannerOutputs :
                Truthy(s.architectural_decision) =>
                  PlannerAgentNode(s, out).planner_iteration_count
                    = s.planner_iteration_count + 1
           /\ \A out \in DeveloperOutputs, task \in {s.task_description, "", ErrPlanText} :
                DeveloperAgentNode([s EXCEPT !.task_description = task], out).refinement_count
                  = s.refinement_count + 1
           /\ \A stage \in NonCountingStages : \A out \in StageOutputs(stage) :
                SameCounters(s, StageResult(stage, s, out))
    ]_vars

\* The planner has run twice and the developer twice, the second time without
\* producing code: both counters are at 2.
C25_Witness ==
  /\ last_node = "developer_agent_node"
  /\ state.generated_code = NULL
  /\ executions["planner_agent_node"] = 2
  /\ state.planner_iteration_count = 2
  /\ executions["developer_agent_node"] = 2
  /\ state.refinement_count = 2

\* ---------------------------------------------------------------- C26
\* C26: in a run started with both counters at 0 and both caps at least 1,
\* refinement_count <= max_refinements and planner_iteration_count <=
\* max_planner_iterations in every reachable state; the developer has been
\* executed at most max_refinements times, the planner at most
\* max_planner_iterations times and the suspension stage at most
\* max_planner_iterations - 1 times (each counter is the number of executions
\* of its stage so far).
C26_CountersWithinCaps ==
  ( state.max_planner_iterations >= 1 /\ state.max_refinements >= 1 ) =>
    /\ state.refinement_count <= state.max_refinements
    /\ state.planner_iteration_count <= state.max_planner_iterations
    /\ executions["developer_agent_node"] = state.refinement_count
    /\ executions["planner_agent_node"] = state.planner_iteration_count
    /\ executions["developer_agent_node"] <= state.max_refinements
    /\ executions["planner_agent_node"] <= state.max_planner_iterations
    /\ executions["human_interaction_node"] <= state.max_planner_iterations - 1

\* A run that used both loops up to their caps: the planner ran
\* max_planner_iterations times, the suspension stage once less, the
\* developer max_refinements times.
C26_Witness ==
  /\ engine = "ended"
  /\ state.max_planner_iterations = 2 /\ state.max_refinements = 3
  /\ executions["planner_agent_node"] = 2
  /\ executions["human_interaction_node"] = 1
  /\ executions["developer_agent_node"] = 3

\* ---------------------------------------------------------------- C27
\* C27: in every reachable state of a run, handoff_summary non-null implies
\* generated_code non-null, current_test_status = success, validation_status =
\* pass, packaged_artifacts_info non-null and current_error null; and
\* packaged_artifacts_info non-null implies validation_status = pass and
\* current_test_status = success.
C27_HandoffOnlyOnSuccessPath ==
  /\ state.handoff_summary # NULL =>
       /\ state.generated_code # NULL
       /\ state.current_test_status = "success"
       /\ state.validation_status = "pass"
       /\ state.packaged_artifacts_info # NULL
       /\ state.current_error = NULL
  /\ state.packaged_artifacts_info # NULL =>
       /\ state.validation_status = "pass"
       /\ state.current_test_status = "success"

\* Scenario E: the run has gone through packaging and handoff and ended, on
\* an attempt that followed a failed one.
C27_Witness ==
  /\ engine = "ended"
  /\ last_node = "handoff_node"
  /\ state.handoff_summary = HandoffText
  /\ state.packaged_artifacts_info = PackagedInfo
  /\ state.refinement_count >= 2

\* ---------------------------------------------------------------- C28
\* C28: with current_test_status = success and no Architect/Planner error,
\* decide_after_qa returns validation_agent_node for every value of
\* refinement_count, at and above max_refinements included, and for every
\* other error text; in a run QA's success is always followed by validation.
\* The cap blocks only the backward edges: a passed validation goes to
\* packaging for every value of the counter as well.
C28_SuccessMovesForward ==
  /\ \A rc \in 0..(MaxRefinementCap + 1),
        err \in { e \in ErrorTexts \cup {NULL} :
                    /\ ~Contains(e, "Architect Error")
                    /\ ~Contains(e, "Planner Error") } :
        /\ decide_after_qa([state EXCEPT !.current_test_status = "success",
                                         !.refinement_count = rc,
                                         !.current_error = err])
             = "validation_agent_node"
        /\ decide_after_validation([state EXCEPT !.validation_status = "pass",
                                                 !.refinement_count = rc,
                                                 !.current_error = err])
             = "artifact_packaging_node"
  /\ ( last_node = "qa_agent_node" /\ state.current_test_status = "success" )
       => pc = "validation_agent_node"

\* The test passed on the attempt that used up the last refinement and the
\* run has moved on to validation.
C28_Witness ==
  /\ last_node = "qa_agent_node"
  /\ state.current_test_status = "success"
  /\ state.max_refinements >= 2
  /\ state.refinement_count = state.max_refinements
  /\ pc = "validation_agent_node"

\* ---------------------------------------------------------------- C29
\* C29: whenever the critique stage executes in a run, generated_code is
\* non-null in the record it receives, so it does not take its 'no code to
\* critique' path (current_error never becomes 'Critique: No code.') and it
\* appends its critique entry to feedback_history.
C29_CritiqueAlwaysHasCode ==
  [][ Executed("critique_agent_node") =>
        /\ state.generated_code # NULL
        /\ state'.current_error # CritiqueNoCodeText
        /\ Len(state'.feedback_history) > Len(state.feedback_history)
        /\ state'.feedback_history[Len(state'.feedback_history)]
             = FeedbackEntry("Critique", state.refinement_count)
    ]_vars

\* ---------------------------------------------------------------- C30
\* The three outcomes of a planner execution, as C30 states them.
AsksQuestions(r) ==
  /\ Truthy(r.clarification_questions_for_user)
  /\ r.planned_task_description = NULL

HasPlan(r) ==
  /\ Truthy(r.planned_task_description)
  /\ r.clarification_questions_for_user = NULL

PlannerFailedBothNull(r) ==
  /\ Contains(r.current_error, "Planner Error")
  /\ r.clarification_questions_for_user = NULL
  /\ r.planned_task_description = NULL

\* The third outcome as the code produces it: planned_task_description is
\* what the service gave for it, null or the empty text.
PlannerFailedNoPlan(r) ==
  /\ Contains(r.current_error, "Planner Error")
  /\ r.clarification_questions_for_user = NULL
  /\ ~Truthy(r.planned_task_description)

ExactlyOne(a, b, c) ==
  (a /\ ~b /\ ~c) \/ (~a /\ b /\ ~c) \/ (~a /\ ~b /\ c)

\* C30 as stated: after every planner execution that calls the reasoning
\* service exactly one of: questions set and plan null; plan non-empty and
\* questions null; a 'Planner Error' with both null.
C30_ExactlyOneOutcomeBothNull ==
  [][ ( Executed("planner_agent_node") /\ Truthy(state.architectural_decision) )
      => ExactlyOne(AsksQuestions(state'), HasPlan(state'),
                    PlannerFailedBothNull(state')) ]_vars

\* C30 as amended: after every planner execution that calls the reasoning
\* service exactly one of: questions set and plan null; plan non-empty and
\* questions null; a 'Planner Error' with the questions null and the plan
\* null or empty.  The record never carries both questions and a plan, and
\* current_error is null in the first two outcomes.  Checked on the planner
\* executions of every run and for every answer of the service on every
\* reachable record.
C30_ExactlyOneOutcome ==
  [][ /\ ( Executed("planner_agent_node") /\ Truthy(state.architectural_decision) )
         => /\ ExactlyOne(AsksQuestions(state'), HasPlan(state'),
                          PlannerFailedNoPlan(state'))
            /\ ~( Truthy(state'.clarification_questions_for_user)
                  /\ Truthy(state'.planned_task_description) )
            /\ ( AsksQuestions(state') \/ HasPlan(state') )
                 => state'.current_error = NULL
      /\ Truthy(state.architectural_decision) =>
           \A out \in PlannerOutputs :
              LET r == PlannerAgentNode(state, out) IN
              /\ ExactlyOne(AsksQuestions(r), HasPlan(r), PlannerFailedNoPlan(r))
              /\ ~( Truthy(r.clarification_questions_for_user)
                    /\ Truthy(r.planned_task_description) )
    ]_vars

\* The service answered with an empty plan and no questions: the planner has
\* left a 'Planner Error' and the empty plan in the record.
C30_Witness ==
  /\ last_node = "planner_agent_node"
  /\ state.planned_task_description = ""
  /\ state.clarification_questions_for_user = NULL
  /\ state.current_error = PlannerErrorNoPlan
  /\ engine = "ended"

\* ---------------------------------------------------------------- C31
\* C31: whenever the QA stage is due in a run, generated_test_cases is
\* non-empty and current_test_case_index is a valid index into it
\* (0 <= index < length), so QA's test-case lookup does not fail: no QA
\* execution raises.
C31_QaIndexValid ==
  /\ pc = "qa_agent_node" =>
       /\ Len(state.generated_test_cases) > 0
       /\ 0 <= state.current_test_case_index
       /\ state.current_test_case_index < Len(state.generated_test_cases)
       /\ ~TestCaseLookupFails(state)
  /\ engine # "stage_raised"

\* QA has run a second time in the run, on the designer's test cases.
C31_Witness ==
  /\ last_node = "qa_agent_node"
  /\ executions["qa_agent_node"] = 2
  /\ state.generated_test_cases = DesignedTestCases
  /\ state.current_test_case_index = 0
  /\ state.current_test_status \in TestStatuses

\* ---------------------------------------------------------------- C32
\* Status and issue list of a record agree.
StatusAgreesWithIssues(r) ==
  /\ r.validation_status \in ValidationStatuses
  /\ r.validation_status = "pass" => r.validation_issues = <<>>
  /\ r.validation_status = "fail" => r.validation_issues # <<>>

\* C32: after every validation execution validation_status = pass implies
\* validation_issues is empty, validation_status = fail implies
\* validation_issues is non-empty, a reported pass that lists issues becomes
\* fail, and validation_status = error is produced exactly when code is
\* missing or the reviewer's output is malformed.  Checked on the validation
\* executions of every run and for every answer of the reviewer on every
\* reachable record, with and without code.
C32_StatusAgreesWithIssues ==
  [][ /\ Executed("validation_agent_node") => StatusAgreesWithIssues(state')
      /\ \A s \in WithMissingUpstream : \A out \in ValidationOutputs :
           LET r == ValidationAgentNode(s, out) IN
           /\ StatusAgreesWithIssues(r)
           /\ r.validation_status = "error"
                <=> ( ~Truthy(s.generated_code) \/ ~out.valid )
           /\ ( /\ Truthy(s.generated_code) /\ out.valid
                /\ out.validation_passed /\ out.issues_found # <<>> )
                => r.validation_status = "fail"
    ]_vars

\* The reviewer reported a pass and listed an issue: the status is fail and
\* the list holds the reviewer's issue and the consistency note.
C32_Witness ==
  /\ last_node = "validation_agent_node"
  /\ state.validation_status = "fail"
  /\ Len(state.validation_issues) = 2
  /\ state.validation_issues[1] = "Missing docstring."

\* ---------------------------------------------------------------- C33
\* The script run of a session took a chunk from its stream: one stage was
\* executed and logged.
StageYielded(sess) ==
  Len(session_state'[sess].run_events_log)
    = Len(session_state[sess].run_events_log) + 1

\* The first script run of a session that reaches the stream after "Reset
\* State" and then "Start Pipeline" were clicked.
FirstStepAfterRestart(sess) ==
  /\ clicks[sess] = "reset_start"
  /\ clicks'[sess] = "none"

\* C33: after "Reset State" followed by "Start Pipeline", at any point of a
\* run, the next step of the session executes the entry stage as the first
\* step of a new stream (the abandoned iterator is not resumed) and that
\* stream works on the original initial record (nothing the abandoned run
\* wrote is visible).
C33_ResetThenStartIsFresh ==
  [][ \A sess \in Sessions :
        FirstStepAfterRestart(sess) =>
          /\ StageYielded(sess)
          /\ session_state'[sess].stream_iterator # NoIterator
          /\ session_state'[sess].stream_iterator[1].last_node = EntryPoint
          /\ session_state'[sess].stream_iterator[1].step = 1
          /\ initial_state =
               InitialState(DefaultMaxPlannerIterations, DefaultMaxRefinements)
    ]_vars

\* ---------------------------------------------------------------- C34
\* The session_state run_pipeline is entered with in a script run without a
\* click: what initialize_ui_state has made of the session's state.
Entered(sess) == initialize_ui_state(session_state[sess])

\* run_pipeline finds the stream of the session exhausted: next() gives the
\* sentinel.
StreamExhausted(sess) ==
  /\ Entered(sess).pipeline_active
  /\ Entered(sess).stream_iterator # NoIterator
  /\ Entered(sess).stream_iterator[1].pc = END

\* C34: a call of run_pipeline while pipeline_active is false executes no
\* stage and leaves current_graph_state (the reference and the record it
\* refers to), stream_iterator and run_events_log as they were; a call that
\* finds the stream exhausted sets pipeline_active to false and
\* stream_iterator to null and leaves current_graph_state (reference and
\* record) and run_events_log as they were.
C34_RunPipelineFrame ==
  [][ \A sess \in Sessions :
        run_pipeline(sess) =>
          /\ ~Entered(sess).pipeline_active =>
               /\ ~StageYielded(sess)
               /\ session_state'[sess].current_graph_state
                    = Entered(sess).current_graph_state
               /\ initial_state' = initial_state
               /\ session_state'[sess].stream_iterator
                    = Entered(sess).stream_iterator
               /\ session_state'[sess].run_events_log
                    = Entered(sess).run_events_log
               /\ ~session_state'[sess].pipeline_active
          /\ StreamExhausted(sess) =>
               /\ ~session_state'[sess].pipeline_active
               /\ session_state'[sess].stream_iterator = NoIterator
               /\ session_state'[sess].current_graph_state
                    = Entered(sess).current_graph_state
               /\ initial_state' = initial_state
               /\ session_state'[sess].run_events_log
                    = Entered(sess).run_events_log
    ]_vars

\* Witness: a session whose stream yielded stages and was then found
\* exhausted: it is idle again, its iterator is null, and it still refers to
\* the record as the last yielded step left it.
C34_Witness ==
  \E sess \in Sessions :
    /\ ~session_state[sess].pipeline_active
    /\ session_state[sess].stream_iterator = NoIterator
    /\ Len(session_state[sess].run_events_log) >= 2
    /\ session_state[sess].current_graph_state = INITIAL_STATE_REF
    /\ initial_state #
         InitialState(DefaultMaxPlannerIterations, DefaultMaxRefinements)

\* ---------------------------------------------------------------- C35
\* The statuses the claim allows.
ToolStatuses == {"success", "compilation_error", "runtime_error", "test_fail"}

\* With the arguments a, the code loads, binds the requested name and the
\* call returns a value.
FunctionRuns(a) ==
  /\ ~a.code_string.falsy
  /\ a.code_string.load = "ok"
  /\ a.function_name \in a.code_string.defines
  /\ CallFunction(a.code_string.body, a.test_inputs).kind = "returns"

\* With the arguments a, loading the code or calling the function raises.
LoadOrCallRaises(a) ==
  /\ ~a.code_string.falsy
  /\ \/ a.code_string.load # "ok"
     \/ /\ a.function_name \in a.code_string.defines
        /\ CallFunction(a.code_string.body, a.test_inputs).kind # "returns"

\* C35: the execution/test tool never lets an exception leave the call and
\* always returns a status in {success, compilation_error, runtime_error,
\* test_fail}: empty code or a missing function gives compilation_error, an
\* exception while loading or calling the code gives runtime_error, a
\* returned value different from the expected one gives test_fail, and
\* success is returned exactly when the function runs and its result equals
\* the expected value, actual_output then being that result.
C35_ToolNeverRaises ==
  tool.outcome # <<>> =>
    LET a == tool.call[1]
        r == tool.outcome[1]
        result == CallFunction(a.code_string.body, a.test_inputs).value
    IN /\ r.raised = NULL
       /\ r.status \in ToolStatuses
       /\ a.code_string.falsy => r.status = "compilation_error"
       /\ ( /\ ~a.code_string.falsy
            /\ a.code_string.load = "ok"
            /\ a.function_name \notin a.code_string.defines )
          => r.status = "compilation_error"
       /\ LoadOrCallRaises(a) => r.status = "runtime_error"
       /\ ( FunctionRuns(a) /\ result # a.expected_output )
          => r.status = "test_fail"
       /\ r.status = "success"
            <=> ( FunctionRuns(a) /\ result = a.expected_output )
       /\ r.status = "success" => r.actual_output = <<result>>

====
